---- MODULE Spec2Model ----
(***************************************************************************)
(* Model of space_switcher_utils_v01.py: the SpaceSwitcherUI panel, the    *)
(* SpaceSwitcher registry and the TempControl build sequence, run against  *)
(* a mocked Maya host.  The host is a set of transform nodes plus the log  *)
(* of host commands the latest handler issued.  One action is one whole    *)
(* Qt slot (or one script call); a Python exception ends the slot at the   *)
(* statement that raised and keeps every effect made before it.            *)
(***************************************************************************)
EXTENDS Integers, Sequences, FiniteSets, TLC

VARIABLES
    selection,          \* cmds.ls(selection=True): the host's selection list
    nodes,              \* names of the transform nodes in the host scene
    chk,                \* the four constraint-type checkboxes
    temp_controllers,   \* SpaceSwitcher.temp_controllers
    cmb,                \* temp_ctrl_panel_cmb: items and current index
    bake_down,          \* SpaceSwitcherUI.bake_down
    undo_open,          \* undo chunks opened and not yet closed
    labels,             \* text of the selection labels tc_ledit_l, tc_ledit_r
    live_jobs,          \* the script jobs alive in the host
    panel_open,         \* the panel is shown (closeEvent has not run)
    last                \* the latest handler: its name, outcome, host calls

vars == <<selection, nodes, chk, temp_controllers, cmb, bake_down,
          undo_open, labels, live_jobs, panel_open, last>>

----------------------------------------------------------------------------
(* Bounds of the model *)

\* registry entries ever appended (the registry is never pruned)
MaxCtrls == 2
\* nodes the tool has made in the scene (a creation that raises leaves its
\* nodes behind)
MaxNodes == 5
\* undo chunks left open
MaxUndo == 1

\* scene objects the animator can select
Objects == {"a", "b", "c"}

\* selections the animator makes: 0, 1, 2 and 3 objects
SelChoices ==
    { <<>>, <<"a">>, <<"b", "a">>, <<"a", "b", "c">> }

\* lock states of the child's transform attributes the host may report
LockChoices ==
    { {}, {"translateX", "scaleZ"} }

\* what the quick-snap boxes switch on when Snap! is clicked
SnapChoices ==
    { {"pointConstraint", "orientConstraint"}, {"scaleConstraint"} }

\* host timeline read by cmds.playbackOptions / cmds.currentTime
Timeline ==
    [minTime |-> 2, maxTime |-> 4, animationStartTime |-> 1,
     animationEndTime |-> 5, currentTime |-> 3]

\* settings of the shape and colour boxes (their first items) and of the
\* bake widgets when Create is clicked, lower-cased as
\* _get_temp_cc_user_params reads them
UiLooks ==
    { [shape |-> "circle", color |-> "pink"] }
UiBakes ==
    { [time_range |-> "time slider", smart_bake |-> FALSE],
      [time_range |-> "none", smart_bake |-> FALSE] }

\* arguments a script may pass to SpaceSwitcher.create_new_temp_ctrl
ApiLooks ==
    { [shape |-> "circle", color |-> "pink"],
      [shape |-> "triangle", color |-> "pink"],
      [shape |-> "square", color |-> "purple"] }
ApiBakes ==
    { [time_range |-> "start/end", smart_bake |-> TRUE],
      [time_range |-> "all", smart_bake |-> FALSE] }
ApiFlags ==
    { [loc |-> TRUE, rot |-> TRUE, scl |-> FALSE, aim |-> FALSE],
      [loc |-> FALSE, rot |-> FALSE, scl |-> FALSE, aim |-> TRUE] }

----------------------------------------------------------------------------
(* The mocked host *)

HostCall(cmd, node, other) ==
    [cmd |-> cmd, node |-> node, other |-> other, time |-> <<>>,
     smart |-> FALSE]

ConstraintCmds ==
    {"pointConstraint", "orientConstraint", "scaleConstraint",
     "parentConstraint", "aimConstraint"}

\* Maya names a constraint node after the driven object and the type
ConstName(type, driven) == driven \o "_" \o type \o "1"

\* cmds.listRelatives(object, children=True, type="constraint") after the
\* host calls in log: the constraints made on object and not deleted since,
\* in the order they were made
ConstraintsUnder(log, object) ==
    LET live(k) ==
            /\ log[k].cmd \in ConstraintCmds
            /\ log[k].other = object
            /\ \A j \in (k+1)..Len(log) :
                 ~(log[j].cmd = "delete"
                   /\ log[j].node = ConstName(log[k].cmd, object))
        idx == SelectSeq([k \in 1..Len(log) |-> k], live)
    IN  [i \in 1..Len(idx) |-> ConstName(log[idx[i]].cmd, object)]

\* a run of a handler: the scene, the host calls so far, the exception
\* that ended it ("" while running), the TempControl it works on
Emit(R, call) == [R EXCEPT !.log = Append(@, call)]
Raise(R, exc) == [R EXCEPT !.exc = exc]
\* whether the next statement of the run is reached: nothing was raised
\* and the method has not returned.  Each method below leaves a run that
\* is not live as it is: its call is never reached.
Live(R) == R.exc = "" /\ ~R.done

----------------------------------------------------------------------------
(* class TempControl *)

\* _get_relations with the child taken from the head of the selection
GetRelations_ChildIsFirst(selections) ==
    IF Len(selections) < 1
    THEN [exc |-> "RuntimeError", parent_object |-> "", child_object |-> ""]
    ELSE IF Len(selections) = 1
    THEN [exc |-> "", parent_object |-> "#world",
          child_object |-> selections[1]]
    ELSE IF Len(selections) = 2
    THEN [exc |-> "", parent_object |-> selections[1],
          child_object |-> selections[1]]
    ELSE [exc |-> "RuntimeError", parent_object |-> "", child_object |-> ""]

\* TempControl._get_relations: parent and child from the selection;
\* cmds.error raises RuntimeError
GetRelations(selections) ==
    IF Len(selections) < 1
    THEN [exc |-> "RuntimeError", parent_object |-> "", child_object |-> ""]
    ELSE IF Len(selections) = 1
    THEN [exc |-> "", parent_object |-> "#world",
          child_object |-> selections[Len(selections)]]
    ELSE IF Len(selections) = 2
    THEN [exc |-> "", parent_object |-> selections[1],
          child_object |-> selections[Len(selections)]]
    ELSE [exc |-> "RuntimeError", parent_object |-> "", child_object |-> ""]

\* the name tried after increment_suffix increments (0: no suffix)
CcName(child, increment_suffix) ==
    IF increment_suffix = 0
    THEN child \o "_tmp_CC"
    ELSE child \o "_tmp_CC_" \o ToString(increment_suffix)

\* default_name.replace("tmp_CC", "tmp_cc_GRP") for a child whose own name
\* does not contain tmp_CC
GrpName(child, increment_suffix) ==
    IF increment_suffix = 0
    THEN child \o "_tmp_cc_GRP"
    ELSE child \o "_tmp_cc_GRP_" \o ToString(increment_suffix)

\* the while loop of TempControl._make_namespace: the first suffix, counting
\* from increment_suffix, whose name cmds.ls does not find in the scene
RECURSIVE FreeSuffix(_, _, _)
FreeSuffix(child, increment_suffix, scene) ==
    IF CcName(child, increment_suffix) \in scene
    THEN FreeSuffix(child, increment_suffix + 1, scene)
    ELSE increment_suffix

\* _make_namespace with the suffix counted from 1 before the first test
MakeNamespace_CountsFromOne(child, scene) ==
    LET n == FreeSuffix(child, 1, scene)
    IN  [name |-> CcName(child, n), grp_name |-> GrpName(child, n)]

\* TempControl._make_namespace
MakeNamespace(child, scene) ==
    LET n == FreeSuffix(child, 0, scene)
    IN  [name |-> CcName(child, n), grp_name |-> GrpName(child, n)]

\* a TempControl before __init__ has set anything
NoSelf ==
    [name |-> "", grp_name |-> "", child_object |-> "", parent_object |-> "",
     shape |-> "", cc_color |-> "", smart_bake |-> FALSE, time_range |-> "",
     constrain_loc |-> FALSE, constrain_rot |-> FALSE,
     constrain_scl |-> FALSE, constrain_aim |-> FALSE,
     bake_range |-> <<>>, locked_transforms |-> <<>>]

\* TempControl.__init__ with the arguments p, on run R.  bake_range is
\* (bake_start, bake_end), <<>> until _get_time_range has set them.
TempControlInit(R, p) ==
    LET rel == GetRelations(R.selection)
        ns  == MakeNamespace(rel.child_object, R.nodes)
    IN  IF rel.exc # ""
        THEN Raise(R, rel.exc)
        ELSE [R EXCEPT !.self =
                [name |-> ns.name, grp_name |-> ns.grp_name,
                 child_object |-> rel.child_object,
                 parent_object |-> rel.parent_object,
                 shape |-> p.shape, cc_color |-> p.color,
                 smart_bake |-> p.smart_bake, time_range |-> p.time_range,
                 constrain_loc |-> p.loc, constrain_rot |-> p.rot,
                 constrain_scl |-> p.scl, constrain_aim |-> p.aim,
                 bake_range |-> <<>>, locked_transforms |-> <<>>]]

\* the attributes _get_locked_transforms queries, in its loop order
TransformAttrs ==
    << [t |-> "translate", a |-> "translateX"],
       [t |-> "translate", a |-> "translateY"],
       [t |-> "translate", a |-> "translateZ"],
       [t |-> "rotate", a |-> "rotateX"],
       [t |-> "rotate", a |-> "rotateY"],
       [t |-> "rotate", a |-> "rotateZ"],
       [t |-> "scale", a |-> "scaleX"],
       [t |-> "scale", a |-> "scaleY"],
       [t |-> "scale", a |-> "scaleZ"] >>

\* the transforms list _get_locked_transforms builds from the flags
CheckedTransforms(self) ==
    (IF self.constrain_loc THEN {"translate"} ELSE {})
    \cup (IF self.constrain_rot \/ self.constrain_aim
          THEN {"rotate"} ELSE {})
    \cup (IF self.constrain_scl THEN {"scale"} ELSE {})

\* TempControl._get_locked_transforms; R.locked is what
\* cmds.getAttr(lock=True) answers for the child's attributes
GetLockedTransforms(R) ==
    LET hit(x) == x.t \in CheckedTransforms(R.self) /\ x.a \in R.locked
        found  == SelectSeq(TransformAttrs, hit)
    IN  [R EXCEPT !.self.locked_transforms =
            [i \in 1..Len(found) |-> found[i].a]]

ValidShapes == {"circle", "square", "diamond"}
ValidColors == {"red", "green", "yellow", "blue", "pink"}

\* TempControl._create_circle_cc: cmds.circle makes the curve node
CreateCircleCc(R) ==
    Emit([R EXCEPT !.nodes = @ \cup {R.self.name}],
         HostCall("circle", R.self.name, ""))

\* TempControl._color_cc
ColorCc(R) ==
    IF R.self.cc_color \notin ValidColors
    THEN Raise(R, "ValueError")
    ELSE Emit(R, HostCall("setAttr", R.self.name, R.self.cc_color))

\* TempControl._create_cc_shape (every valid shape starts from the circle;
\* _set_tmp_cc_size only transforms the curve)
CreateCcShape(R) ==
    IF ~Live(R)
    THEN R
    ELSE IF R.self.shape \notin ValidShapes
    THEN Raise(R, "ValueError")
    ELSE ColorCc(CreateCircleCc(R))

\* one constraint command: target drives driven
Constrain(R, type, target, driven) ==
    Emit(R, HostCall(type, target, driven))

\* cmds.delete of a constraint node
DeleteConst(R, const) == Emit(R, HostCall("delete", const, ""))

\* snap_to(children, parent) with its default loc, rot, scl = True: each
\* constraint is made and deleted at once
SnapTo(R, child, parent) ==
    LET snap(Q, type) ==
            DeleteConst(Constrain(Q, type, parent, child),
                        ConstName(type, child))
    IN  snap(snap(snap(R, "pointConstraint"), "orientConstraint"),
             "scaleConstraint")

\* TempControl._setup_aim_cc
SetupAimCc(R) ==
    Constrain(Emit(R, HostCall("xform", R.self.name, "translation")),
              "parentConstraint", R.self.child_object, R.self.name)

\* TempControl._create_hierarchy
CreateHierarchy(R, master_grp) ==
    LET self == R.self
        R1 == Emit([R EXCEPT !.nodes = @ \cup {self.grp_name}],
                   HostCall("group", self.grp_name, self.name))
        R2 == IF master_grp # ""
              THEN Emit(R1, HostCall("parent", self.grp_name, master_grp))
              ELSE R1
        R3 == SnapTo(R2, self.name, self.child_object)
        R4 == IF self.parent_object # "#world"
              THEN Constrain(R3, "parentConstraint", self.parent_object,
                             self.grp_name)
              ELSE R3
        R5 == IF self.constrain_loc
              THEN Constrain(R4, "pointConstraint", self.child_object,
                             self.name)
              ELSE R4
        R6 == IF self.constrain_rot
              THEN Constrain(R5, "orientConstraint", self.child_object,
                             self.name)
              ELSE R5
        R7 == IF self.constrain_scl
              THEN Constrain(R6, "scaleConstraint", self.child_object,
                             self.name)
              ELSE R6
    IN  IF ~Live(R) THEN R
        ELSE IF self.constrain_aim THEN SetupAimCc(R7) ELSE R7

\* TempControl._get_time_range
GetTimeRange(R) ==
    IF ~Live(R)
    THEN R
    ELSE IF R.self.time_range = "time slider"
    THEN [R EXCEPT !.self.bake_range =
            <<Timeline.minTime, Timeline.maxTime>>]
    ELSE IF R.self.time_range = "start/end"
    THEN [R EXCEPT !.self.bake_range =
            <<Timeline.animationStartTime, Timeline.animationEndTime>>]
    ELSE IF R.self.time_range = "none"
    THEN [R EXCEPT !.self.bake_range =
            <<Timeline.currentTime, Timeline.currentTime>>]
    ELSE Raise(R, "ValueError")

\* the for loop of _bake_anim: cmds.delete of each listed constraint
RECURSIVE DeleteConsts(_, _)
DeleteConsts(R, consts) ==
    IF consts = <<>>
    THEN R
    ELSE DeleteConsts(DeleteConst(R, Head(consts)), Tail(consts))

\* TempControl._bake_anim.  Reading bake_start before _get_time_range set
\* it is an AttributeError; listRelatives answers None when the object has
\* no constraint, and iterating None is a TypeError.
BakeAnim(R, object, delete_consts) ==
    IF ~Live(R)
    THEN R
    ELSE IF R.self.bake_range = <<>>
    THEN Raise(R, "AttributeError")
    ELSE LET R1 == Emit(R, [cmd |-> "bakeResults", node |-> object,
                            other |-> "", time |-> R.self.bake_range,
                            smart |-> R.self.smart_bake])
             consts == ConstraintsUnder(R1.log, object)
         IN  IF ~delete_consts
             THEN R1
             ELSE IF consts = <<>>
             THEN Raise(R1, "TypeError")
             ELSE DeleteConsts(R1, consts)

\* TempControl.bake_child_anim
BakeChildAnim(R) == BakeAnim(R, R.self.child_object, FALSE)

\* TempControl._break_connections
BreakConnections(R, object, xform_channel) ==
    Emit(R, HostCall("breakConnections", object, xform_channel))

\* _add_inverse_consts with the aim test missing on the orient constraint
AddInverseConsts_OrientIgnoresAim(R) ==
    LET self == R.self
        R1 == IF ~self.constrain_loc /\ ~self.constrain_aim
              THEN Constrain(R, "pointConstraint", self.child_object,
                             self.name)
              ELSE R
        R2 == IF ~self.constrain_rot
              THEN Constrain(R1, "orientConstraint", self.child_object,
                             self.name)
              ELSE R1
    IN  IF ~Live(R) THEN R
        ELSE IF ~self.constrain_scl
        THEN Constrain(BreakConnections(R2, self.name, "scale"),
                       "scaleConstraint", self.child_object, self.name)
        ELSE R2

\* TempControl._add_inverse_consts
AddInverseConsts(R) ==
    LET self == R.self
        R1 == IF ~self.constrain_loc /\ ~self.constrain_aim
              THEN Constrain(R, "pointConstraint", self.child_object,
                             self.name)
              ELSE R
        R2 == IF ~self.constrain_rot /\ ~self.constrain_aim
              THEN Constrain(R1, "orientConstraint", self.child_object,
                             self.name)
              ELSE R1
    IN  IF ~Live(R) THEN R
        ELSE IF ~self.constrain_scl
        THEN Constrain(BreakConnections(R2, self.name, "scale"),
                       "scaleConstraint", self.child_object, self.name)
        ELSE R2

\* TempControl._const_child_to_tmp_cc
ConstChildToTmpCc(R) ==
    LET self == R.self
        R1 == IF self.constrain_loc
              THEN Constrain(R, "pointConstraint", self.name,
                             self.child_object)
              ELSE R
        R2 == IF self.constrain_rot
              THEN Constrain(R1, "orientConstraint", self.name,
                             self.child_object)
              ELSE R1
        R3 == IF self.constrain_scl
              THEN Constrain(
                     BreakConnections(R2, self.child_object, "scale"),
                     "scaleConstraint", self.name, self.child_object)
              ELSE R2
    IN  IF ~Live(R) THEN R
        ELSE IF self.constrain_aim
        THEN Constrain(R3, "aimConstraint", self.name, self.child_object)
        ELSE R3

\* TempControl.kill_hierarchy: cmds.delete of the group takes the curve
\* grouped under it along; deleting a name no node has is a ValueError
KillHierarchy(R) ==
    IF ~Live(R)
    THEN R
    ELSE IF R.self.grp_name \notin R.nodes
    THEN Raise(R, "ValueError")
    ELSE Emit([R EXCEPT !.nodes = @ \ {R.self.grp_name, R.self.name}],
              HostCall("delete", R.self.grp_name, ""))

\* the locked-channel test at the head of create_temp_ctrl: warn and return
AbortIfLocked(R) ==
    IF R.self.locked_transforms # <<>>
    THEN [R EXCEPT !.warning = "locked", !.done = TRUE]
    ELSE R

\* the creation bake called with delete_consts=False
BakeCc_KeepsConsts(R) == BakeAnim(R, R.self.name, FALSE)

\* the creation bake: self._bake_anim(self.name)
BakeCc(R) == BakeAnim(R, R.self.name, TRUE)

\* create_temp_ctrl constraining the child to the proxy before the bake
CreateTempCtrl_WiresBeforeBake(R, master_grp) ==
    LET R1 == AbortIfLocked(GetLockedTransforms(R))
        R2 == CreateCcShape(R1)
        R3 == CreateHierarchy(R2, master_grp)
        R4 == GetTimeRange(R3)
        R5 == ConstChildToTmpCc(R4)
        R6 == BakeCc(R5)
        R7 == AddInverseConsts(R6)
    IN  IF ~Live(R) THEN R ELSE [R7 EXCEPT !.done = FALSE]

\* TempControl.create_temp_ctrl
CreateTempCtrl(R, master_grp) ==
    LET R1 == AbortIfLocked(GetLockedTransforms(R))
        R2 == CreateCcShape(R1)
        R3 == CreateHierarchy(R2, master_grp)
        R4 == GetTimeRange(R3)
        R5 == BakeCc(R4)
        R6 == AddInverseConsts(R5)
        R7 == ConstChildToTmpCc(R6)
    IN  IF ~Live(R) THEN R ELSE [R7 EXCEPT !.done = FALSE]

----------------------------------------------------------------------------
(* class SpaceSwitcher *)

\* SpaceSwitcher.master_grp
MasterGrp == "__space_switch_master__"

\* The registry entry of a TempControl.  The entry holds the object; the
\* model keeps the attributes a later bake_child_anim or kill_hierarchy
\* reads (the others are read by create_temp_ctrl alone).
Entry(self) ==
    [name |-> self.name,
     object |-> [name |-> self.name, grp_name |-> self.grp_name,
                 child_object |-> self.child_object,
                 smart_bake |-> self.smart_bake,
                 bake_range |-> self.bake_range]]

\* create_new_temp_ctrl making the master group without asking cmds.ls
EnsureMasterGrp_Always(R) ==
    IF ~Live(R)
    THEN R
    ELSE Emit([R EXCEPT !.nodes = @ \cup {MasterGrp}],
              HostCall("group", MasterGrp, ""))

\* the lazy creation of the master group in create_new_temp_ctrl
EnsureMasterGrp(R) ==
    IF ~Live(R)
    THEN R
    ELSE IF MasterGrp \notin R.nodes
    THEN Emit([R EXCEPT !.nodes = @ \cup {MasterGrp}],
              HostCall("group", MasterGrp, ""))
    ELSE R

\* the registration at the end of create_new_temp_ctrl
Register(R) ==
    IF ~Live(R)
    THEN R
    ELSE [R EXCEPT !.temp_controllers = Append(@, Entry(R.self))]

\* SpaceSwitcher.create_new_temp_ctrl with the arguments p
CreateNewTempCtrl(R, p) ==
    Register(CreateTempCtrl(EnsureMasterGrp(TempControlInit(R, p)),
                            MasterGrp))

----------------------------------------------------------------------------
(* class SpaceSwitcherUI *)

\* SpaceSwitcherUI._create_script_jobs: the jobs the panel registers and
\* keeps in self.script_jobs
ScriptJobs == <<"sel_labels_sj">>

\* closeEvent leaving the script jobs alive
KillScriptJobs_KillsNone(jobs) == jobs

\* the loop of closeEvent: cmds.scriptJob(kill=job) for each job of
\* self.script_jobs; jobs are the script jobs alive in the host
KillScriptJobs(jobs) ==
    jobs \ { ScriptJobs[i] : i \in 1..Len(ScriptJobs) }

\* _update_sel_labels showing a pair in selection order
UpdateSelLabels_PairInSelectionOrder(selections, old) ==
    LET t0 == IF Len(selections) = 0
              THEN [l |-> "[No selections.]", r |-> "[No selections.]"]
              ELSE old
        t1 == IF Len(selections) = 1
              THEN [l |-> selections[1], r |-> "[World Space]"]
              ELSE t0
        t2 == IF Len(selections) = 2
              THEN [l |-> selections[1], r |-> selections[2]]
              ELSE t1
    IN  IF Len(selections) > 2
        THEN [l |-> "[Too many selections!]", r |-> "[Too many selections!]"]
        ELSE t2

\* SpaceSwitcherUI._update_sel_labels: four tests in a row on the number
\* of selected objects, each setting both labels
UpdateSelLabels(selections, old) ==
    LET t0 == IF Len(selections) = 0
              THEN [l |-> "[No selections.]", r |-> "[No selections.]"]
              ELSE old
        t1 == IF Len(selections) = 1
              THEN [l |-> selections[1], r |-> "[World Space]"]
              ELSE t0
        t2 == IF Len(selections) = 2
              THEN [l |-> selections[2], r |-> selections[1]]
              ELSE t1
    IN  IF Len(selections) > 2
        THEN [l |-> "[Too many selections!]", r |-> "[Too many selections!]"]
        ELSE t2

\* QComboBox.currentText
CurrentText(box) ==
    IF box.index < 0 THEN "" ELSE box.items[box.index + 1]

\* QComboBox.addItem: the first item becomes the current one
AddItem(box, text) ==
    [items |-> Append(box.items, text),
     index |-> IF box.items = <<>> THEN 0 ELSE box.index]

\* QComboBox.removeItem: an index out of range removes nothing; when the
\* current item goes, the item taking its row (or the last) becomes current
RemoveItem(box, i) ==
    IF i < 0 \/ i >= Len(box.items)
    THEN box
    ELSE LET rest == [k \in 1..(Len(box.items) - 1) |->
                        IF k <= i THEN box.items[k] ELSE box.items[k + 1]]
         IN  [items |-> rest,
              index |-> IF i < box.index THEN box.index - 1
                        ELSE IF box.index > Len(rest) - 1 THEN Len(rest) - 1
                        ELSE box.index]

\* SpaceSwitcherUI._add_new_temp_ctrl_to_cmb
AddNewTempCtrlToCmb(R) ==
    IF ~Live(R)
    THEN R
    ELSE [R EXCEPT !.cmb =
            AddItem(@, R.temp_controllers[Len(R.temp_controllers)].name)]

\* cmds.undoInfo(openChunk=True) and cmds.undoInfo(closeChunk=True)
OpenChunk(R) ==
    Emit([R EXCEPT !.undo_open = @ + 1], HostCall("undoInfo", "openChunk", ""))
CloseChunk(R) ==
    IF ~Live(R)
    THEN R
    ELSE Emit([R EXCEPT !.undo_open = IF @ > 0 THEN @ - 1 ELSE 0],
              HostCall("undoInfo", "closeChunk", ""))

\* the selection tests with the upper test off by one
SelectionRejected_UpToThree(selections) ==
    Len(selections) < 1 \/ Len(selections) > 3

\* the two selection tests at the head of SpaceSwitcherUI.create_temp_ctrl
SelectionRejected(selections) ==
    Len(selections) < 1 \/ Len(selections) > 2

\* SpaceSwitcherUI.create_temp_ctrl; p holds what
\* _get_temp_cc_user_params reads from the widgets
UiCreateTempCtrl(R, p) ==
    IF SelectionRejected(R.selection)
    THEN [R EXCEPT !.warning = "selection"]
    ELSE CloseChunk(AddNewTempCtrlToCmb(
             CreateNewTempCtrl(OpenChunk(R), p)))

\* the for loop of delete_temp_cc: the first entry with the selected name
FirstNamed(registry, text) ==
    LET hits == { i \in 1..Len(registry) : registry[i].name = text }
    IN  IF hits = {} THEN 0
        ELSE CHOOSE i \in hits : \A j \in hits : i <= j

\* the body of the loop of delete_temp_cc for the entry found
BakeAndKill(R) ==
    KillHierarchy(IF R.bake_down THEN BakeChildAnim(R) ELSE R)

\* the statements of delete_temp_cc after its loop
ResetAndRemoveItem(R) ==
    IF ~Live(R)
    THEN R
    ELSE [R EXCEPT !.bake_down = FALSE,
                   !.cmb = RemoveItem(@, R.cmb.index)]

\* SpaceSwitcherUI.delete_temp_cc
DeleteTempCc(R) ==
    LET i  == FirstNamed(R.temp_controllers, CurrentText(R.cmb))
        R1 == IF i = 0
              THEN R
              ELSE BakeAndKill([R EXCEPT !.self = R.temp_controllers[i].object])
    IN  ResetAndRemoveItem(R1)

\* SpaceSwitcherUI.bake_back_anim
BakeBackAnim(R) == DeleteTempCc([R EXCEPT !.bake_down = TRUE])

\* snap_to(children, parent, loc, rot, scl) over a list of children
RECURSIVE SnapChildren(_, _, _, _)
SnapChildren(R, children, parent, types) ==
    IF children = <<>>
    THEN R
    ELSE LET snap(Q, type) ==
                 IF type \in types
                 THEN DeleteConst(Constrain(Q, type, parent, Head(children)),
                                  ConstName(type, Head(children)))
                 ELSE Q
         IN  SnapChildren(
                 snap(snap(snap(R, "pointConstraint"), "orientConstraint"),
                      "scaleConstraint"),
                 Tail(children), parent, types)

\* snap_to_selected, called by snap_tools_button with the quick-snap
\* checkboxes; types are the constraint types they switch on
SnapToSelected(R, types) ==
    LET R1 == OpenChunk(R)
        n  == Len(R.selection)
    IN  IF n < 2
        THEN [R1 EXCEPT !.warning = "selection"]
        ELSE CloseChunk(SnapChildren(R1, SubSeq(R.selection, 1, n - 1),
                                     R.selection[n], types))

\* the aim slot unchecking Location alone
MutualExclusionAim_KeepsRotation(c) ==
    IF c.aim THEN [c EXCEPT !.loc = FALSE] ELSE c

\* temp_cc_opt_const_type_mutual_exclusion_aim, run on the boxes c
MutualExclusionAim(c) ==
    IF c.aim THEN [c EXCEPT !.loc = FALSE, !.rot = FALSE] ELSE c

\* temp_cc_opt_const_type_mutual_exclusion_loc_rot, run on the boxes c
MutualExclusionLocRot(c) ==
    IF c.loc \/ c.rot THEN [c EXCEPT !.aim = FALSE] ELSE c

----------------------------------------------------------------------------
(* The state machine *)

\* no handler has run, or the latest event ran no handler of interest
Idle ==
    [op |-> "", exc |-> "", warning |-> "", log |-> <<>>, self |-> NoSelf]

\* the run a handler starts from the current state; locked is the host's
\* answer about the child's locked attributes
Run(locked) ==
    [selection |-> selection, locked |-> locked, nodes |-> nodes,
     log |-> <<>>, exc |-> "", done |-> FALSE, warning |-> "",
     self |-> NoSelf, temp_controllers |-> temp_controllers, cmb |-> cmb,
     bake_down |-> bake_down, undo_open |-> undo_open]

\* the model's bounds on what a handler may leave behind
WithinBounds(R) ==
    /\ Len(R.temp_controllers) <= MaxCtrls
    /\ Cardinality(R.nodes \ Objects) <= MaxNodes
    /\ R.undo_open <= MaxUndo

\* the state a handler named op leaves when its run ends as R
Commit(op, R) ==
    /\ WithinBounds(R)
    /\ nodes' = R.nodes
    /\ temp_controllers' = R.temp_controllers
    /\ cmb' = R.cmb
    /\ bake_down' = R.bake_down
    /\ undo_open' = R.undo_open
    /\ last' = [op |-> op, exc |-> R.exc, warning |-> R.warning,
                log |-> R.log, self |-> R.self]
    /\ UNCHANGED <<selection, chk, labels, live_jobs, panel_open>>

\* SpaceSwitcherUI.__init__ and SpaceSwitcher.__init__, in a scene that
\* holds the animator's objects
Init ==
    /\ selection = <<>>
    /\ nodes = Objects
    /\ chk = [loc |-> TRUE, rot |-> TRUE, scl |-> FALSE, aim |-> FALSE]
    /\ temp_controllers = <<>>
    /\ cmb = [items |-> <<>>, index |-> -1]
    /\ bake_down = FALSE
    /\ undo_open = 0
    /\ labels = UpdateSelLabels(<<>>, [l |-> "", r |-> ""])
    /\ live_jobs = { ScriptJobs[i] : i \in 1..Len(ScriptJobs) }
    /\ panel_open = TRUE
    /\ last = Idle

\* the animator changes the selection in the host; the host runs the
\* SelectionChanged script job when it is alive
SelectionChanged ==
    /\ \E s \in SelChoices :
         /\ selection' = s
         /\ labels' = IF "sel_labels_sj" \in live_jobs
                      THEN UpdateSelLabels(s, labels)
                      ELSE labels
    /\ last' = Idle
    /\ UNCHANGED <<nodes, chk, temp_controllers, cmb, bake_down, undo_open,
                   live_jobs, panel_open>>

\* a click on the Location box: Qt toggles it, then the slot runs
ClickLoc ==
    /\ panel_open
    /\ chk' = MutualExclusionLocRot([chk EXCEPT !.loc = ~@])
    /\ last' = Idle
    /\ UNCHANGED <<selection, nodes, temp_controllers, cmb, bake_down,
                   undo_open, labels, live_jobs, panel_open>>

\* a click on the Rotation box
ClickRot ==
    /\ panel_open
    /\ chk' = MutualExclusionLocRot([chk EXCEPT !.rot = ~@])
    /\ last' = Idle
    /\ UNCHANGED <<selection, nodes, temp_controllers, cmb, bake_down,
                   undo_open, labels, live_jobs, panel_open>>

\* a click on the Scale box, which has no slot
ClickScl ==
    /\ panel_open
    /\ chk' = [chk EXCEPT !.scl = ~@]
    /\ last' = Idle
    /\ UNCHANGED <<selection, nodes, temp_controllers, cmb, bake_down,
                   undo_open, labels, live_jobs, panel_open>>

\* a click on the Aim box
ClickAim ==
    /\ panel_open
    /\ chk' = MutualExclusionAim([chk EXCEPT !.aim = ~@])
    /\ last' = Idle
    /\ UNCHANGED <<selection, nodes, temp_controllers, cmb, bake_down,
                   undo_open, labels, live_jobs, panel_open>>

\* the animator picks another item of the managed-controls list
SetCurrentIndex ==
    /\ panel_open
    /\ \E i \in 0..(Len(cmb.items) - 1) :
         /\ i # cmb.index
         /\ cmb' = [cmb EXCEPT !.index = i]
    /\ last' = Idle
    /\ UNCHANGED <<selection, nodes, chk, temp_controllers, bake_down,
                   undo_open, labels, live_jobs, panel_open>>

\* _get_temp_cc_user_params: the arguments read from the widgets
UserParams(look, bake) ==
    [loc |-> chk.loc, rot |-> chk.rot, scl |-> chk.scl, aim |-> chk.aim,
     color |-> look.color, shape |-> look.shape,
     smart_bake |-> bake.smart_bake, time_range |-> bake.time_range]

\* the Create Temp Controller! button
CreateButton ==
    /\ panel_open
    /\ \E look \in UiLooks, bake \in UiBakes, locked \in LockChoices :
         Commit("create_temp_ctrl",
                UiCreateTempCtrl(Run(locked), UserParams(look, bake)))

\* the Snap! button
SnapButton ==
    /\ panel_open
    /\ \E types \in SnapChoices :
         Commit("snap_tools_button", SnapToSelected(Run({}), types))

\* the Delete button
DeleteButton ==
    /\ panel_open
    /\ Commit("delete_temp_cc", DeleteTempCc(Run({})))

\* the Bake Down button
BakeDownButton ==
    /\ panel_open
    /\ Commit("bake_back_anim", BakeBackAnim(Run({})))

Next ==
    \/ SelectionChanged
    \/ ClickLoc
    \/ ClickRot
    \/ ClickScl
    \/ ClickAim
    \/ SetCurrentIndex
    \/ CreateButton
    \/ SnapButton
    \/ DeleteButton
    \/ BakeDownButton

\* the panel while it is shown
Spec == Init /\ [][Next]_vars

\* the animator closes the panel: closeEvent kills the panel's script jobs
\* and accepts the event, which hides the dialog
CloseEvent ==
    /\ panel_open
    /\ live_jobs' = KillScriptJobs(live_jobs)
    /\ panel_open' = FALSE
    /\ last' = [Idle EXCEPT !.op = "closeEvent"]
    /\ UNCHANGED <<selection, nodes, chk, temp_controllers, cmb, bake_down,
                   undo_open, labels>>

NextPanel ==
    \/ SelectionChanged
    \/ ClickLoc
    \/ ClickRot
    \/ ClickScl
    \/ ClickAim
    \/ SnapButton
    \/ CloseEvent

\* the panel from its construction to after its close, with the handlers
\* that leave the registry alone: once it is closed, the host's selection
\* changes are the only events left
SpecPanel == Init /\ [][NextPanel]_vars

\* a script calls SpaceSwitcher.create_new_temp_ctrl itself
ScriptCreate ==
    \E look \in ApiLooks, bake \in ApiBakes, flags \in ApiFlags,
       locked \in LockChoices :
        Commit("create_new_temp_ctrl",
               CreateNewTempCtrl(Run(locked),
                   [loc |-> flags.loc, rot |-> flags.rot, scl |-> flags.scl,
                    aim |-> flags.aim, color |-> look.color,
                    shape |-> look.shape, smart_bake |-> bake.smart_bake,
                    time_range |-> bake.time_range]))

NextApi ==
    \/ SelectionChanged
    \/ ScriptCreate

\* the SpaceSwitcher driven from a script instead of from the panel
SpecApi == Init /\ [][NextApi]_vars

----------------------------------------------------------------------------
(* Properties *)

\* the positions in log of the host calls of the commands cmds
Calls(log, cmds) == { i \in 1..Len(log) : log[i].cmd \in cmds }

\* the positions in log of the host calls of command cmd on node
CallsOn(log, cmd, node) ==
    { i \in 1..Len(log) : log[i].cmd = cmd /\ log[i].node = node }

\* the registry entries with the name text
EntriesNamed(registry, text) ==
    { i \in 1..Len(registry) : registry[i].name = text }

\* C1: after Delete has run on a list item that names a registered
\* controller, the registry holds no entry with that name and the list has
\* lost the item: both have shrunk by exactly one entry.
C1_DeleteShrinksRegistryAndList ==
    [][ ( /\ last'.op = "delete_temp_cc"
          /\ last'.exc = ""
          /\ EntriesNamed(temp_controllers, CurrentText(cmb)) # {} )
        => ( /\ EntriesNamed(temp_controllers', CurrentText(cmb)) = {}
             /\ Len(temp_controllers') = Len(temp_controllers) - 1
             /\ Len(cmb'.items) = Len(cmb.items) - 1 ) ]_vars

\* C2: Create Temp Controller with 0 or more than 2 objects selected warns
\* and returns: no host call at all (no node made, no undo chunk opened),
\* no registry entry and no list item added.
C2_RejectedSelectionLeavesNoTrace ==
    [][ ( /\ last'.op = "create_temp_ctrl"
          /\ Len(selection) \notin {1, 2} )
        => ( /\ last'.warning = "selection"
             /\ last'.exc = ""
             /\ last'.log = <<>>
             /\ nodes' = nodes
             /\ undo_open' = undo_open
             /\ temp_controllers' = temp_controllers
             /\ cmb' = cmb ) ]_vars

\* Create was clicked with three objects selected and was turned down
C2_Witness ==
    /\ last.op = "create_temp_ctrl"
    /\ last.warning = "selection"
    /\ Len(selection) = 3

\* C3: a creation whose child has a locked channel among the chosen ones
\* warns and aborts before any scene node is made, the master group
\* included.
C3_LockedAbortMakesNoNode ==
    ( /\ last.op = "create_temp_ctrl"
      /\ last.self.locked_transforms # <<>> )
    => ( /\ last.warning = "locked"
         /\ Calls(last.log, {"circle", "group"}) = {} )

\* C4: a creation with an invalid shape or colour raises the validation
\* error before any scene mutation: no curve, group or master group has
\* been made when it is raised.
C4_InvalidLookRaisesBeforeMutation ==
    ( /\ last.op = "create_new_temp_ctrl"
      /\ last.self.name # ""
      /\ last.self.locked_transforms = <<>>
      /\ \/ last.self.shape \notin {"circle", "square", "diamond"}
         \/ last.self.cc_color \notin
                {"red", "green", "yellow", "blue", "pink"} )
    => ( /\ last.exc = "ValueError"
         /\ Calls(last.log, {"circle", "group"}) = {} )

\* C5: no two entries of the registry have the same name.
C5_RegistryNamesUnique ==
    \A i, j \in 1..Len(temp_controllers) :
        temp_controllers[i].name = temp_controllers[j].name => i = j

\* C6: _make_namespace gives c_tmp_CC when the scene has no node of that
\* name and otherwise c_tmp_CC_n for the smallest n >= 1 whose name the
\* scene does not have; the name is never that of an existing node.
C6_NamespaceIsFirstFreeName ==
    [][ ( /\ last'.op = "create_temp_ctrl"
          /\ last'.self.name # "" )
        => LET c == last'.self.child_object
               nth(n) == IF n = 0 THEN c \o "_tmp_CC"
                         ELSE c \o "_tmp_CC_" \o ToString(n)
           IN  /\ last'.self.name \notin nodes
               /\ \E n \in 0..Cardinality(nodes) :
                    /\ last'.self.name = nth(n)
                    /\ \A m \in 0..(n - 1) : nth(m) \in nodes ]_vars

\* a second controller was made for child a while the first still exists
C6_Witness ==
    /\ last.op = "create_temp_ctrl"
    /\ last.exc = ""
    /\ last.self.name = "a_tmp_CC_1"
    /\ Len(temp_controllers) = 2
    /\ temp_controllers[1].name = "a_tmp_CC"
    /\ {"a_tmp_CC", "a_tmp_CC_1"} \subseteq nodes

\* C7: after any clicks on the Location, Rotation, Scale and Aim boxes, Aim
\* is never checked together with Location or Rotation.
C7_AimExcludesLocRot ==
    ~(chk.aim /\ (chk.loc \/ chk.rot))

\* Aim has been checked, which unchecked Location and Rotation
C7_Witness ==
    chk.aim /\ ~chk.loc /\ ~chk.rot

\* C8: Bake Down bakes the child before it removes the controller's
\* hierarchy; plain Delete removes the hierarchy without baking the child.
C8_BakeOnlyOnBakeDownAndFirst ==
    /\ last.op = "bake_back_anim"
       => \A k \in CallsOn(last.log, "delete", last.self.grp_name) :
            \E b \in CallsOn(last.log, "bakeResults",
                             last.self.child_object) : b < k
    /\ last.op = "delete_temp_cc"
       => Calls(last.log, {"bakeResults"}) = {}

\* C9: with 1 object selected TempControl resolves parent #world and that
\* object as child, with 2 the first as parent and the second as child; any
\* other selection size raises and resolves nothing.
C9_RelationsFromSelection ==
    last.op = "create_new_temp_ctrl"
    => /\ Len(selection) = 1
          => /\ last.self.parent_object = "#world"
             /\ last.self.child_object = selection[1]
       /\ Len(selection) = 2
          => /\ last.self.parent_object = selection[1]
             /\ last.self.child_object = selection[2]
       /\ Len(selection) \notin {1, 2}
          => /\ last.exc = "RuntimeError"
             /\ last.self.parent_object = ""
             /\ last.self.child_object = ""
             /\ last.log = <<>>

\* two objects were selected: b became the parent and a the child
C9_Witness ==
    /\ last.op = "create_new_temp_ctrl"
    /\ selection = <<"b", "a">>
    /\ last.self.parent_object = "b"
    /\ last.self.child_object = "a"

\* C10: between user actions no undo chunk is open, and an action that
\* issued host commands wrapped them in exactly one chunk.
C10_UndoChunksBalanced ==
    /\ undo_open = 0
    /\ last.log # <<>>
       => /\ Cardinality(CallsOn(last.log, "undoInfo", "openChunk")) = 1
          /\ Cardinality(CallsOn(last.log, "undoInfo", "closeChunk")) = 1

\* C11: a creation that raises leaves the prior state untouched: no node it
\* made (curve, controller group, master group) remains in the scene, and
\* no registry entry or list item has been added.
C11_FailedCreateLeavesNoTrace ==
    [][ ( /\ last'.op = "create_temp_ctrl"
          /\ last'.exc # "" )
        => ( /\ nodes' = nodes
             /\ temp_controllers' = temp_controllers
             /\ cmb' = cmb ) ]_vars

\* C12: there is no master group before the first creation; a creation
\* makes it only when the scene has none, and at most once; every
\* controller group a creation makes is parented under the master group,
\* which is in the scene when the creation ends.
C12_OneLazyMasterGroup ==
    /\ MasterGrp \notin nodes
    /\ [][ /\ (MasterGrp \in nodes' /\ MasterGrp \notin nodes)
              => /\ last'.op = "create_temp_ctrl"
                 /\ Cardinality(CallsOn(last'.log, "group", MasterGrp)) = 1
           /\ (last'.op = "create_temp_ctrl" /\ MasterGrp \in nodes)
              => CallsOn(last'.log, "group", MasterGrp) = {}
           /\ last'.op = "create_temp_ctrl"
              => \A k \in CallsOn(last'.log, "group", last'.self.grp_name) :
                   /\ MasterGrp \in nodes'
                   /\ \E j \in CallsOn(last'.log, "parent",
                                       last'.self.grp_name) :
                        j > k /\ last'.log[j].other = MasterGrp ]_vars

\* a second controller was made: the master group was there already and
\* was not made again, and the new controller group was parented under it
C12_Witness ==
    /\ last.op = "create_temp_ctrl"
    /\ last.exc = ""
    /\ Len(temp_controllers) = 2
    /\ CallsOn(last.log, "group", MasterGrp) = {}
    /\ CallsOn(last.log, "parent", last.self.grp_name) # {}
    /\ {MasterGrp, temp_controllers[1].object.grp_name,
        temp_controllers[2].object.grp_name} \subseteq nodes

\* the constraint types made from the child onto the proxy after the
\* creation bake of the proxy
InverseTypes(log, self) ==
    { log[k].cmd : k \in
        { i \in Calls(log, ConstraintCmds) :
            /\ log[i].node = self.child_object
            /\ log[i].other = self.name
            /\ \E b \in CallsOn(log, "bakeResults", self.name) : b < i } }

\* the inverse constraint types for the channels the flags leave unchosen
UnchosenTypes(self) ==
    (IF self.constrain_loc THEN {} ELSE {"pointConstraint"})
    \cup (IF self.constrain_rot THEN {} ELSE {"orientConstraint"})
    \cup (IF self.constrain_scl THEN {} ELSE {"scaleConstraint"})

\* a creation that ran to its end
CreateCompleted ==
    /\ last.op = "create_temp_ctrl"
    /\ last.exc = ""
    /\ last.warning = ""

\* C13: after the creation bake the inverse constraints from the child onto
\* the proxy are exactly those of the channels not chosen for control, and
\* with aim mode enabled there is none at all.
C13_InverseOnUnchosenNoneWithAim ==
    CreateCompleted
    => InverseTypes(last.log, last.self) =
         IF last.self.constrain_aim THEN {} ELSE UnchosenTypes(last.self)

\* C13 as amended: with aim mode enabled the point and orient inverse
\* constraints are left out, and the scale inverse constraint is still
\* made when scale was not chosen.
C13_InverseOnUnchosenAimKeepsScale ==
    CreateCompleted
    => InverseTypes(last.log, last.self) =
         IF last.self.constrain_aim
         THEN UnchosenTypes(last.self) \cap {"scaleConstraint"}
         ELSE UnchosenTypes(last.self)

\* an aim controller was made with scale unchosen: its one inverse
\* constraint is the scale constraint
C13_Witness ==
    /\ CreateCompleted
    /\ last.self.constrain_aim
    /\ ~last.self.constrain_scl
    /\ InverseTypes(last.log, last.self) = {"scaleConstraint"}

\* the label texts for the selection s
LabelsFor(s) ==
    IF Len(s) = 0
    THEN [l |-> "[No selections.]", r |-> "[No selections.]"]
    ELSE IF Len(s) = 1 THEN [l |-> s[1], r |-> "[World Space]"]
    ELSE IF Len(s) = 2 THEN [l |-> s[2], r |-> s[1]]
    ELSE [l |-> "[Too many selections!]", r |-> "[Too many selections!]"]

\* C14: closeEvent kills every script job the panel registered, and from
\* then on no selection change updates the labels; while the panel is open
\* every selection change leaves both labels showing the new selection.
C14_LabelsFollowSelectionUntilClose ==
    [][ /\ ~panel_open' => live_jobs' = {}
        /\ ~panel_open => labels' = labels
        /\ (panel_open' /\ selection' # selection)
           => labels' = LabelsFor(selection') ]_vars

\* the panel was closed with nothing selected and two objects were
\* selected afterwards: the labels still read [No selections.]
C14_Witness ==
    /\ ~panel_open
    /\ live_jobs = {}
    /\ Len(selection) = 2
    /\ labels = [l |-> "[No selections.]", r |-> "[No selections.]"]

\* the constraint calls among the first upto calls of log that drive
\* object and whose constraint node no later call among them deleted
LiveConstraintCalls(log, object, upto) ==
    { k \in 1..upto :
        /\ log[k].cmd \in ConstraintCmds
        /\ log[k].other = object
        /\ ~\E j \in (k + 1)..upto :
              /\ log[j].cmd = "delete"
              /\ log[j].node = object \o "_" \o log[k].cmd \o "1" }

\* the last call of the bake that starts at call b of log: the run of
\* delete calls after bakeResults ends there
BakeEnd(log, b) ==
    CHOOSE e \in b..Len(log) :
        /\ \A j \in (b + 1)..e : log[j].cmd = "delete"
        /\ e < Len(log) => log[e + 1].cmd # "delete"

\* C15: the creation bake of the proxy ends with no constraint node left
\* under the proxy (it had some before), and the bake-back of the child
\* deletes no constraint node of the child.
C15_BakeRemovesProxyConstsKeepsChildConsts ==
    /\ CreateCompleted
       => \A b \in CallsOn(last.log, "bakeResults", last.self.name) :
            /\ LiveConstraintCalls(last.log, last.self.name, b) # {}
            /\ LiveConstraintCalls(last.log, last.self.name,
                                   BakeEnd(last.log, b)) = {}
    /\ last.op \in {"bake_back_anim", "delete_temp_cc"}
       => \A b \in CallsOn(last.log, "bakeResults", last.self.child_object) :
            /\ last.log[b].time = last.self.bake_range
            /\ \A j \in Calls(last.log, {"delete"}) :
                 last.log[j].node \notin
                   { last.self.child_object \o "_" \o t \o "1" :
                       t \in ConstraintCmds }

\* Bake Down ran on a controller of child a: the child was baked over the
\* controller's bake window, then the group alone was deleted
C15_Witness ==
    /\ last.op = "bake_back_anim"
    /\ last.exc = ""
    /\ CallsOn(last.log, "bakeResults", "a") # {}
    /\ Calls(last.log, {"delete"}) =
         CallsOn(last.log, "delete", last.self.grp_name)
    /\ Calls(last.log, {"delete"}) # {}

\* a creation, from the panel or from a script, that got as far as
\* _get_time_range: the controller group has been made
ReachedTimeRange ==
    /\ last.op \in {"create_temp_ctrl", "create_new_temp_ctrl"}
    /\ CallsOn(last.log, "group", last.self.grp_name) # {}

\* C16: _get_time_range resolves the bake window to (timeline min, timeline
\* max) for mode time slider, to (animation start, animation end) for mode
\* start/end, and to the current frame alone for mode none, in which case no
\* bake is made; any other mode raises ValueError.
C16_TimeRangeResolvedNoneSkipsBake ==
    ReachedTimeRange
    => /\ last.self.time_range = "time slider"
          => last.self.bake_range = <<Timeline.minTime, Timeline.maxTime>>
       /\ last.self.time_range = "start/end"
          => last.self.bake_range = <<Timeline.animationStartTime,
                                      Timeline.animationEndTime>>
       /\ last.self.time_range = "none"
          => /\ last.self.bake_range = <<Timeline.currentTime,
                                         Timeline.currentTime>>
             /\ Calls(last.log, {"bakeResults"}) = {}
       /\ last.self.time_range \notin {"time slider", "start/end", "none"}
          => /\ last.exc = "ValueError"
             /\ last.self.bake_range = <<>>

\* C17: a controller is registered and listed only after it was built and
\* baked; a creation that aborts on locked channels adds no registry entry
\* and no list item.
C17_RegisteredOnlyWhenBuilt ==
    [][ last'.op = "create_temp_ctrl"
        => /\ (temp_controllers' # temp_controllers \/ cmb' # cmb)
              => /\ CallsOn(last'.log, "circle", last'.self.name) # {}
                 /\ CallsOn(last'.log, "bakeResults", last'.self.name) # {}
           /\ last'.warning = "locked"
              => /\ temp_controllers' = temp_controllers
                 /\ cmb' = cmb ]_vars

\* C18: the items of the managed-controls list are the names of the
\* registry entries, in the same order.
C18_ListMirrorsRegistry ==
    cmb.items =
        [i \in 1..Len(temp_controllers) |-> temp_controllers[i].name]

\* C19: between user actions the bake_down flag is False, and a plain
\* Delete makes no bake, whatever the actions before it ended with.
C19_BakeDownFlagResets ==
    /\ bake_down = FALSE
    /\ last.op = "delete_temp_cc"
       => CallsOn(last.log, "bakeResults", last.self.child_object) = {}

\* the transform channels a constraint type drives
ChannelsOf(type) ==
    IF type = "pointConstraint" THEN {"location"}
    ELSE IF type = "orientConstraint" THEN {"rotation"}
    ELSE IF type = "scaleConstraint" THEN {"scale"}
    ELSE IF type = "parentConstraint" THEN {"location", "rotation"}
    ELSE IF type = "aimConstraint" THEN {"rotation"}
    ELSE {}

\* the channels of driven that target drives after the first upto calls
\* of log
DrivenChannels(log, target, driven, upto) ==
    UNION { ChannelsOf(log[k].cmd) :
              k \in { i \in LiveConstraintCalls(log, driven, upto) :
                        log[i].node = target } }

\* C20: at every step of a creation and at its end, no channel is
\* constrained both from the child onto the proxy and from the proxy onto
\* the child.
C20_NoChannelConstrainedBothWays ==
    last.op = "create_temp_ctrl"
    => \A n \in 0..Len(last.log) :
         DrivenChannels(last.log, last.self.child_object, last.self.name, n)
         \cap DrivenChannels(last.log, last.self.name,
                             last.self.child_object, n) = {}

\* a location controller was made: at the end the proxy drives the child's
\* location and the child drives the proxy's rotation and scale
C20_Witness ==
    /\ CreateCompleted
    /\ DrivenChannels(last.log, last.self.name, last.self.child_object,
                      Len(last.log)) = {"location"}
    /\ DrivenChannels(last.log, last.self.child_object, last.self.name,
                      Len(last.log)) = {"rotation", "scale"}

\* the registry entry made last under the name text: the entry of the
\* controller now shown under that name (0: none)
LastNamed(registry, text) ==
    LET hits == EntriesNamed(registry, text)
    IN  IF hits = {} THEN 0
        ELSE CHOOSE i \in hits : \A j \in hits : j <= i

\* C21: Delete and Bake Down on a list item act on the TempControl made
\* last under that name: the group deleted is its group, and the bake-back
\* is of its child, over its bake window, with its smart-bake setting, not
\* those of an earlier controller of the same name.
C21_DeleteActsOnLiveController ==
    ( /\ last.op \in {"delete_temp_cc", "bake_back_anim"}
      /\ last.self.name # "" )
    => LET live ==
               temp_controllers[LastNamed(temp_controllers,
                                          last.self.name)].object
       IN  /\ last.self = live
           /\ \A k \in Calls(last.log, {"bakeResults"}) :
                /\ last.log[k].node = live.child_object
                /\ last.log[k].time = live.bake_range
                /\ last.log[k].smart = live.smart_bake
           /\ \A k \in Calls(last.log, {"delete"}) :
                last.log[k].node = live.grp_name

\* the texts the labels show when the selection cannot be used
RejectionTexts == {"[No selections.]", "[Too many selections!]"}

\* C22: the labels agree with the selection resolver: with 1 or 2 objects
\* selected the left label shows the child _get_relations resolves and the
\* right label its parent (world space for 1 object); with 0 or more than
\* 2 both labels show a rejection text, the resolver raises, and a Create
\* click is turned down; Create is turned down in no other case.
C22_LabelsAgreeWithResolver ==
    LET rel == GetRelations(selection)
    IN  /\ Len(selection) \in {1, 2}
           => /\ rel.exc = ""
              /\ labels.l = rel.child_object
              /\ labels.r = IF Len(selection) = 1 THEN "[World Space]"
                            ELSE rel.parent_object
              /\ Len(selection) = 1 => rel.parent_object = "#world"
              /\ labels.l = selection[Len(selection)]
              /\ Len(selection) = 2 => labels.r = selection[1]
        /\ Len(selection) \notin {1, 2}
           => /\ rel.exc # ""
              /\ labels.l \in RejectionTexts
              /\ labels.r = labels.l
        /\ last.op = "create_temp_ctrl"
           => (last.warning = "selection" <=> labels.l \in RejectionTexts)

\* b then a were selected: the left label shows the child a, the right
\* label the parent b, and Create went ahead
C22_Witness ==
    /\ selection = <<"b", "a">>
    /\ labels = [l |-> "a", r |-> "b"]
    /\ last.op = "create_temp_ctrl"
    /\ last.warning = ""
    /\ last.self.child_object = "a"
    /\ last.self.parent_object = "b"

\* C23: Delete on any listed item completes without error, deletes the
\* group node of the controller listed under that name and takes the item
\* off the list, so that no item stays in the list for good.
C23_DeleteRemovesAnyListedItem ==
    [][ ( /\ last'.op = "delete_temp_cc"
          /\ cmb.index >= 0 )
        => ( /\ last'.exc = ""
             /\ last'.self.name = CurrentText(cmb)
             /\ CallsOn(last'.log, "delete", last'.self.grp_name) # {}
             /\ last'.self.grp_name \notin nodes'
             /\ Len(cmb'.items) = Len(cmb.items) - 1 ) ]_vars

====
